---------------------------- MODULE Spec2Model ----------------------------
(***************************************************************************)
(* Model of the telemetry pipeline: the resumable stream reader            *)
(* (src/parser.py), the rolling anomaly engine (src/ai.py) and the packet  *)
(* producer (src/gen.py).                                                  *)
(*                                                                         *)
(* Representation choices                                                  *)
(*  - telemetry.bin is a sequence of whole PACKET_SIZE-byte records plus a *)
(*    count of bytes of a trailing record that is still being written.     *)
(*    Byte offsets are kept as integers, so a cursor that is not a         *)
(*    multiple of PACKET_SIZE is representable.                            *)
(*  - the magic field is kept as its four little-endian wire bytes.        *)
(*  - one model time unit is 86 400 000 ms (one day): a 64 bit millisecond *)
(*    count does not fit the model checker's integers.                     *)
(*  - real valued columns are kept in fixed point: batt_v in millivolts,   *)
(*    temp_c in centi-degrees, power_mw in microwatts (battery_mv * mA).   *)
(*  - NULL is the empty sequence <<>>, a value v is <<v>>.                 *)
(***************************************************************************)
EXTENDS Integers, Sequences, FiniteSets, TLC

\* ------------------------------------------------------------------ bounds
MaxRecords == 2
MaxAiPasses == 2
MaxQuiet == 14

\* --------------------------------------------------------------- constants
MAGIC_ID == <<52, 18, 205, 171>>
PAYLOAD_SIZE == 31
CRC_SIZE == 4
PACKET_SIZE == PAYLOAD_SIZE + CRC_SIZE

R_BATTERY_MV_MIN == 6000
R_BATTERY_MV_MAX == 8400
R_IBATT_MIN == -2000
R_IBATT_MAX == 2000
R_SOC_MIN == 0
R_SOC_MAX == 100
R_TEMPCENTI_MIN == -2000
R_TEMPCENTI_MAX == 5000
R_SOLAR_MA_MIN == 0
R_SOLAR_MA_MAX == 600
R_ALT_M_MIN == 300000
R_ALT_M_MAX == 600000

\* REQUIRED_YEAR = 2025, REQUIRED_MONTH = 12 in days since the epoch:
\* 2025-12-01 is day 20423, 2026-01-01 is day 20454.
DEC2025_FIRST_DAY == 20423
JAN2026_FIRST_DAY == 20454
\* datetime.fromtimestamp raises past 9999-12-31 (day 2932896).
DATETIME_MAX_DAY == 2932896

BIT_CRC_FAIL == 1
BIT_TS_BAD == 2
BIT_ID_GAP == 4
BIT_SANITY == 8
BIT_FRAMING == 16

NULL == <<>>
Some(v) == <<v>>

\* ------------------------------------------------------------------ inputs
BadMagic == <<0, 0, 0, 0>>

\* zlib.crc32 over the payload: any fixed function of every payload field.
\* The weights keep distinct payloads of RecordInputs at distinct sums.
compute_crc32(p) ==
    ( p.magic[1] + p.magic[2] + p.magic[3] + p.magic[4]
    + 3 * p.packet_id + 5 * (p.ts_ms % 1000) + 7 * p.battery_mv
    + 11 * (p.I_batt_mA + 32768) + 13 * p.soc_uint8
    + 17 * (p.temp_centiC + 32768) + 19 * (p.solar_int16 + 32768)
    + 23 * (p.altitude_uint32 % 1000) + 29 * p.error_flags ) % 65521

\* struct.pack of the header fields (gen.py): the payload of a record.
Payload(magic, pid, ts, mv, ib, soc, temp, solar, alt, ef) ==
    [ magic |-> magic, packet_id |-> pid, ts_ms |-> ts, battery_mv |-> mv,
      I_batt_mA |-> ib, soc_uint8 |-> soc, temp_centiC |-> temp,
      solar_int16 |-> solar, altitude_uint32 |-> alt, error_flags |-> ef ]

\* A wire record: the payload followed by the four checksum bytes.
WithCrc(p, crc) == [ payload |-> p, recv_crc |-> crc ]

\* gen.py: the producer's packet, checksum computed over the payload.
EncodePacket(p) == WithCrc(p, compute_crc32(p))

\* A packet inside every operating range, with no device error flag.
Nominal(pid, ts) == Payload(MAGIC_ID, pid, ts, 7400, 100, 80, 2500, 300, 400000, 0)
WithMagic(p, magic) == [ p EXCEPT !.magic = magic ]

\* The records the stream may hold.  Well formed packets in December 2025
\* with timestamps rising with the id:
GoodRecords ==
    { EncodePacket(Nominal(pid, DEC2025_FIRST_DAY + pid)) : pid \in {0, 1, 2} }
\* packets the validator flags (temperature above range with a device
\* error flag; a November timestamp after an id gap), and one whose
\* timestamp lies past the last year datetime can hold:
FlaggedRecords ==
    { EncodePacket(Payload(MAGIC_ID, 1, DEC2025_FIRST_DAY + 1, 7400, 100, 80, 5100, 300, 400000, 8)),
      EncodePacket(Nominal(3, DEC2025_FIRST_DAY - 1)),
      EncodePacket(Nominal(1, DATETIME_MAX_DAY + 1)) }
\* a valid packet with only its magic altered, and one with only its
\* checksum bytes altered:
CorruptRecords ==
    { WithCrc(WithMagic(Nominal(1, DEC2025_FIRST_DAY + 1), BadMagic),
              compute_crc32(Nominal(1, DEC2025_FIRST_DAY + 1))),
      WithCrc(Nominal(2, DEC2025_FIRST_DAY + 2),
              (compute_crc32(Nominal(2, DEC2025_FIRST_DAY + 2)) + 1) % 65521) }
RecordInputs == GoodRecords \cup FlaggedRecords \cup CorruptRecords

\* What f.read returns for bytes that are not one whole record of the
\* stream (a misaligned or a partial range): bytes of no valid packet.
GarbageRecord == WithCrc(Payload(BadMagic, 0, 0, 0, 0, 0, 0, 0, 0, 0), 1)

\* Sizes a partially flushed trailing record may be observed at.
PartialSizes == {1, 34}

\* ------------------------------------------------------------ packet codec
\* parse_iteration_once: split the chunk, unpack the header fields.
framing_ok(rec) == rec.payload.magic = MAGIC_ID
crc_ok(rec) == rec.recv_crc = compute_crc32(rec.payload)

\* ---------------------------------------------------------- wire encoding
\* struct.pack / struct.unpack with "<I I Q H h B h h I H" and "<I": fields
\* little-endian at fixed offsets, no padding.  A byte is 0 .. 255.
RECURSIVE ToLE(_, _)
ToLE(n, width) ==
    IF width = 0 THEN << >> ELSE <<n % 256>> \o ToLE(n \div 256, width - 1)

RECURSIVE FromLE(_)
FromLE(bytes) ==
    IF bytes = << >> THEN 0 ELSE Head(bytes) + 256 * FromLE(Tail(bytes))

\* 'h': a signed 16 bit field in two's complement
ToSigned16(n) == ToLE(IF n < 0 THEN n + 65536 ELSE n, 2)
FromUnsigned16(bytes) == FromLE(bytes)
FromSigned16(bytes) ==
    IF FromLE(bytes) >= 32768 THEN FromLE(bytes) - 65536 ELSE FromLE(bytes)

\* gen.py: packet_without_crc = struct.pack(fmt, MAGIC_ID, packet_id, ...)
PackHeader(p) ==
       p.magic
    \o ToLE(p.packet_id, 4)
    \o ToLE(p.ts_ms, 8)
    \o ToLE(p.battery_mv, 2)
    \o ToSigned16(p.I_batt_mA)
    \o ToLE(p.soc_uint8, 1)
    \o ToSigned16(p.temp_centiC)
    \o ToSigned16(p.solar_int16)
    \o ToLE(p.altitude_uint32, 4)
    \o ToLE(p.error_flags, 2)

\* zlib.crc32 over a byte string: a fixed function of every byte and of its
\* position, below 2^32.
RECURSIVE ChecksumFrom(_, _)
ChecksumFrom(h, bytes) ==
    IF bytes = << >> THEN h
    ELSE ChecksumFrom((h * 31 + Head(bytes) + 1) % 65521, Tail(bytes))
zlib_crc32(bytes) == ChecksumFrom(1, bytes)

\* gen.py: packet = packet_without_crc + struct.pack("<I", crc)
EncodeBytes(p) == PackHeader(p) \o ToLE(zlib_crc32(PackHeader(p)), CRC_SIZE)

\* parser.py: struct.unpack(PACKET_HEADER_FMT, payload)
UnpackHeaderAllUnsigned(payload) ==
    Payload(SubSeq(payload, 1, 4),
            FromLE(SubSeq(payload, 5, 8)),
            FromLE(SubSeq(payload, 9, 16)),
            FromLE(SubSeq(payload, 17, 18)),
            FromUnsigned16(SubSeq(payload, 19, 20)),
            FromLE(SubSeq(payload, 21, 21)),
            FromUnsigned16(SubSeq(payload, 22, 23)),
            FromUnsigned16(SubSeq(payload, 24, 25)),
            FromLE(SubSeq(payload, 26, 29)),
            FromLE(SubSeq(payload, 30, 31)))
UnpackHeader(payload) ==
    Payload(SubSeq(payload, 1, 4),
            FromLE(SubSeq(payload, 5, 8)),
            FromLE(SubSeq(payload, 9, 16)),
            FromLE(SubSeq(payload, 17, 18)),
            FromSigned16(SubSeq(payload, 19, 20)),
            FromLE(SubSeq(payload, 21, 21)),
            FromSigned16(SubSeq(payload, 22, 23)),
            FromSigned16(SubSeq(payload, 24, 25)),
            FromLE(SubSeq(payload, 26, 29)),
            FromLE(SubSeq(payload, 30, 31)))

\* parser.py: payload = chunk[:PACKET_SIZE - 4]; crc_bytes = chunk[PACKET_SIZE - 4:]
ChunkPayload(chunk) == SubSeq(chunk, 1, PACKET_SIZE - CRC_SIZE)
ChunkCrcBytes(chunk) == SubSeq(chunk, PACKET_SIZE - CRC_SIZE + 1, Len(chunk))

\* the record parse_iteration_once unpacks from a chunk, and its two checks
DecodeChunk(chunk) == WithCrc(UnpackHeader(ChunkPayload(chunk)), FromLE(ChunkCrcBytes(chunk)))
ChunkFramingOk(chunk) == DecodeChunk(chunk).payload.magic = MAGIC_ID
ChunkCrcOk(chunk) == DecodeChunk(chunk).recv_crc = zlib_crc32(ChunkPayload(chunk))

\* ---------------------------------------------------------------- validator
\* Python's "x or d" on an integer column.
OrDefault(x, d) == IF x = 0 THEN d ELSE x

HasBit(flags, bit) == (flags \div bit) % 2 = 1
SetBit(flags, bit) == IF HasBit(flags, bit) THEN flags ELSE flags + bit
SetBitIf(cond, flags, bit) == IF cond THEN SetBit(flags, bit) ELSE flags
NoteIf(cond, note) == IF cond THEN <<note>> ELSE <<>>

\* datetime.fromtimestamp(ts_ms/1000.0, tz=utc) raises past year 9999.
TsConversionRaises(ts) == ts > DATETIME_MAX_DAY
\* ts_dt.year == REQUIRED_YEAR and ts_dt.month == REQUIRED_MONTH
InRequiredMonth(ts) == DEC2025_FIRST_DAY <= ts /\ ts < JAN2026_FIRST_DAY

\* monotonicity check against the reference packet
TsNotIncreasing(p, last) ==
    last # NULL /\ p.ts_ms <= OrDefault(last[1].ts_ms, 0)

\* ID gap check: the reference id as the code reads it, and the gap.
PrevId(last) == OrDefault(last[1].packet_id, -1)
IdGap(p, last) ==
    IF last # NULL /\ p.packet_id # PrevId(last) + 1 /\ p.packet_id > PrevId(last) + 1
    THEN p.packet_id - (PrevId(last) + 1)
    ELSE 0

\* sanity checks with the operating ranges: one note per failing channel
SanityNotes(p) ==
       NoteIf(~(R_BATTERY_MV_MIN <= p.battery_mv /\ p.battery_mv <= R_BATTERY_MV_MAX),
              <<"battery_voltage_out_of_operating_range", p.battery_mv, 0>>)
    \o NoteIf(~(R_IBATT_MIN <= p.I_batt_mA /\ p.I_batt_mA <= R_IBATT_MAX),
              <<"current_out_of_operating_range", p.I_batt_mA, 0>>)
    \o NoteIf(~(R_SOC_MIN <= p.soc_uint8 /\ p.soc_uint8 <= R_SOC_MAX),
              <<"soc_out_of_operating_range", p.soc_uint8, 0>>)
    \o NoteIf(~(R_TEMPCENTI_MIN <= p.temp_centiC /\ p.temp_centiC <= R_TEMPCENTI_MAX),
              <<"temp_out_of_range", p.temp_centiC, 0>>)
    \o NoteIf(~(R_SOLAR_MA_MIN <= p.solar_int16 /\ p.solar_int16 <= R_SOLAR_MA_MAX),
              <<"solar_current_out_of_operating_range", p.solar_int16, 0>>)
    \o NoteIf(~(R_ALT_M_MIN <= p.altitude_uint32 /\ p.altitude_uint32 <= R_ALT_M_MAX),
              <<"alt_out_of_operating_range", p.altitude_uint32, 0>>)

ValidationFlags(p, last) ==
    SetBitIf(SanityNotes(p) # <<>>,
      SetBitIf(IdGap(p, last) > 0,
        SetBitIf(TsNotIncreasing(p, last),
          SetBitIf(~InRequiredMonth(p.ts_ms), 0, BIT_TS_BAD),
          BIT_TS_BAD),
        BIT_ID_GAP),
      BIT_SANITY)

ValidationNotes(p, last) ==
       NoteIf(~InRequiredMonth(p.ts_ms), <<"ts_not_Dec2025", p.ts_ms, 0>>)
    \o NoteIf(TsNotIncreasing(p, last),
              <<"ts_not_increasing", IF last = NULL THEN 0 ELSE last[1].ts_ms, 0>>)
    \o NoteIf(IdGap(p, last) > 0,
              <<"id_gap", IF last = NULL THEN 0 ELSE PrevId(last), IdGap(p, last)>>)
    \o SanityNotes(p)

\* simple anomaly logic: any sanity or timestamp issue, or error_flags set
AnomalyFlagAnyFinding(flags, error_flags) ==
    IF flags # 0 \/ error_flags # 0 THEN 1 ELSE 0
AnomalyFlag(flags, error_flags) ==
    IF HasBit(flags, BIT_TS_BAD) \/ HasBit(flags, BIT_SANITY) \/ error_flags # 0
    THEN 1 ELSE 0

AnomalyReasons(flags, error_flags) ==
       NoteIf(HasBit(flags, BIT_TS_BAD) \/ HasBit(flags, BIT_SANITY),
              <<"validation_issue", 0, 0>>)
    \o NoteIf(error_flags # 0, <<"error_flags", error_flags, 0>>)

\* The row prepared for the packets table from an accepted record and the
\* reference packet last_stored (NULL when there is none).
BuildRow(rec, last) ==
    LET p == rec.payload
        flags == ValidationFlags(p, last)
    IN  [ packet_id |-> p.packet_id,
          ts_ms |-> p.ts_ms,
          magic |-> p.magic,
          battery_mv |-> p.battery_mv,
          batt_v |-> p.battery_mv,
          batt_current_ma |-> p.I_batt_mA,
          soc_percent |-> p.soc_uint8,
          temp_centi |-> p.temp_centiC,
          temp_c |-> p.temp_centiC,
          solar_current_ma |-> p.solar_int16,
          altitude_m |-> p.altitude_uint32,
          error_flags |-> p.error_flags,
          recv_crc |-> rec.recv_crc,
          crc_ok |-> 1,
          framing_ok |-> 1,
          validation_flags |-> flags,
          anomaly_flag |-> AnomalyFlag(flags, p.error_flags),
          anomaly_reasons |-> AnomalyReasons(flags, p.error_flags) \o ValidationNotes(p, last),
          power_mw |-> p.battery_mv * p.I_batt_mA,
          delta_batt_v |-> IF last = NULL THEN NULL ELSE Some(p.battery_mv - last[1].batt_v),
          delta_temp_c |-> IF last = NULL THEN NULL ELSE Some(p.temp_centiC - last[1].temp_c),
          time_delta_ms |-> IF last = NULL THEN NULL ELSE Some(p.ts_ms - last[1].ts_ms) ]

\* last_stored as the loop keeps it after a record
AsLastStored(rec) ==
    Some([ packet_id |-> rec.payload.packet_id, ts_ms |-> rec.payload.ts_ms,
           batt_v |-> rec.payload.battery_mv, temp_c |-> rec.payload.temp_centiC ])

\* --------------------------------------------------------- packets table
\* The table is a function from the stored packet ids to their rows.
MaxOf(S) == CHOOSE x \in S : \A y \in S : y <= x

\* SELECT ... ORDER BY packet_id DESC LIMIT 1
get_last_stored_info(db) ==
    IF DOMAIN db = {} THEN NULL
    ELSE LET r == db[MaxOf(DOMAIN db)]
         IN  Some([ packet_id |-> r.packet_id, ts_ms |-> r.ts_ms,
                    batt_v |-> r.batt_v, temp_c |-> r.temp_c ])

\* INSERT OR REPLACE keyed by packet_id, committed
insert_packet(db, row) ==
    [ k \in DOMAIN db \cup {row.packet_id} |->
        IF k = row.packet_id THEN row ELSE db[k] ]

\* A checkpoint file: missing, or holding the text of an integer.
MissingFile == [ state |-> "missing", val |-> 0 ]
IntFile(v) == [ state |-> "int", val |-> v ]
\* A file whose text is no integer: empty, partly written or not numeric.
GarbageFile == [ state |-> "garbage", val |-> 0 ]

\* ---------------------------------------------------------- anomaly engine
ROLLING_WINDOW == 30
SIGMA == 3
TEMP_HIGH == 5000
TEMP_LOW == -2000

PushUnbounded(buf, x) == Append(buf, x)

\* deque(maxlen=ROLLING_WINDOW).append
Push(buf, x) ==
    IF Len(buf) < ROLLING_WINDOW THEN Append(buf, x) ELSE Append(Tail(buf), x)

EmptyRolls == [ v |-> << >>, i |-> << >>, p |-> << >>, t |-> << >> ]

\* int(x) of a real: truncation toward zero; power_mw is kept times 1000
TruncDiv(a, b) == IF a >= 0 THEN a \div b ELSE -((-a) \div b)

\* The four channel values of a packets row as check_rules_for_row and
\* warmup_rolls extract them: int(battery_mv), int(batt_current_ma),
\* int(power_mw), int(temp_centi).
Channels(row) ==
    [ v |-> row.battery_mv, i |-> row.batt_current_ma,
      p |-> TruncDiv(row.power_mw, 1000), t |-> row.temp_centi ]

PushRow(r, row) ==
    LET c == Channels(row)
    IN  [ v |-> Push(r.v, c.v), i |-> Push(r.i, c.i),
          p |-> Push(r.p, c.p), t |-> Push(r.t, c.t) ]

\* mean(buf) and pstdev(buf) enter the rules only through the comparisons
\* x > mean + SIGMA*std and x < mean - SIGMA*std with std > 0.  With
\* n = len(buf), S = sum(b - x) and Q = sum((b - x)^2) over the window:
\* mean - x = S/n and std = sqrt(n*Q - S*S)/n, so the comparisons are taken
\* exactly on integers (deviations from x keep the products small).
RECURSIVE SumDev(_, _)
SumDev(buf, x) == IF buf = << >> THEN 0 ELSE (Head(buf) - x) + SumDev(Tail(buf), x)
RECURSIVE SumSqDev(_, _)
SumSqDev(buf, x) ==
    IF buf = << >> THEN 0
    ELSE (Head(buf) - x) * (Head(buf) - x) + SumSqDev(Tail(buf), x)

\* n*n*variance of the window
ScaledVar(buf, x) == Len(buf) * SumSqDev(buf, x) - SumDev(buf, x) * SumDev(buf, x)

\* stats(buf) is not (None, None)
HasStats(buf) == Len(buf) >= 2

\* std > 0 and x > mean + SIGMA * std
SpikeAbove(buf, x) ==
    /\ HasStats(buf)
    /\ ScaledVar(buf, x) > 0
    /\ SumDev(buf, x) < 0
    /\ ScaledVar(buf, x) <= (SumDev(buf, x) * SumDev(buf, x) - 1) \div (SIGMA * SIGMA)

\* std > 0 and x < mean - SIGMA * std
DropBelow(buf, x) ==
    /\ HasStats(buf)
    /\ ScaledVar(buf, x) > 0
    /\ SumDev(buf, x) > 0
    /\ ScaledVar(buf, x) <= (SumDev(buf, x) * SumDev(buf, x) - 1) \div (SIGMA * SIGMA)

RuleTagsTempInclusive(r, row) ==
    LET c == Channels(row)
    IN     NoteIf(DropBelow(r.v, c.v), <<"VOLTAGE_DROP", "major">>)
        \o NoteIf(SpikeAbove(r.i, c.i), <<"CURRENT_SPIKE", "major">>)
        \o NoteIf(SpikeAbove(r.p, c.p), <<"POWER_SPIKE", "major">>)
        \o NoteIf(c.t >= TEMP_HIGH, <<"TEMP_HIGH", "critical">>)
        \o NoteIf(c.t <= TEMP_LOW, <<"TEMP_LOW", "critical">>)
        \o NoteIf(SpikeAbove(r.t, c.t), <<"TEMP_RISE", "major">>)

\* check_rules_for_row after the windows were updated: r holds the windows
\* with the row's values pushed
RuleTags(r, row) ==
    LET c == Channels(row)
    IN     NoteIf(DropBelow(r.v, c.v), <<"VOLTAGE_DROP", "major">>)
        \o NoteIf(SpikeAbove(r.i, c.i), <<"CURRENT_SPIKE", "major">>)
        \o NoteIf(SpikeAbove(r.p, c.p), <<"POWER_SPIKE", "major">>)
        \o NoteIf(c.t > TEMP_HIGH, <<"TEMP_HIGH", "critical">>)
        \o NoteIf(c.t < TEMP_LOW, <<"TEMP_LOW", "critical">>)
        \o NoteIf(SpikeAbove(r.t, c.t), <<"TEMP_RISE", "major">>)

check_rules_before_push(r, row) == RuleTags(r, row)

\* check_rules_for_row: the tags for the row, windows updated first
check_rules_for_row(r, row) == RuleTags(PushRow(r, row), row)

\* The tuples run_once collects for one row.
AnomalyRecords(row, tags) ==
    [ k \in 1 .. Len(tags) |->
        [ packet_id |-> row.packet_id, ts_ms |-> row.ts_ms,
          tag |-> tags[k][1], severity |-> tags[k][2] ] ]

\* The ids of a table in ascending order.
RECURSIVE Ascending(_)
Ascending(S) ==
    IF S = {} THEN << >>
    ELSE LET m == CHOOSE x \in S : \A y \in S : x <= y
         IN  <<m>> \o Ascending(S \ {m})

LastN(seq, n) ==
    IF Len(seq) <= n THEN seq ELSE SubSeq(seq, Len(seq) - n + 1, Len(seq))

\* warmup_rolls: the last ROLLING_WINDOW rows by packet_id, oldest first
RECURSIVE PushRows(_, _, _)
PushRows(r, db, ids) ==
    IF ids = << >> THEN r ELSE PushRows(PushRow(r, db[Head(ids)]), db, Tail(ids))

warmup_rolls(r, db) == PushRows(r, db, LastN(Ascending(DOMAIN db), ROLLING_WINDOW))

\* run_once: the loop over the rows with packet_id > last_id, ascending.
\* st = [rolls, max_seen, collected]
RECURSIVE EvaluateRows(_, _, _)
EvaluateRows(st, db, ids) ==
    IF ids = << >> THEN st
    ELSE LET row == db[Head(ids)]
             tags == check_rules_for_row(st.rolls, row)
         IN  EvaluateRows(
                 [ rolls |-> PushRow(st.rolls, row),
                   max_seen |-> IF row.packet_id > st.max_seen
                                THEN row.packet_id ELSE st.max_seen,
                   collected |-> st.collected \o AnomalyRecords(row, tags) ],
                 db, Tail(ids))

\* ux_ai_packet_tag with INSERT OR IGNORE: one row of the batch
HasPair(table, rec) ==
    \E k \in 1 .. Len(table) :
        table[k].packet_id = rec.packet_id /\ table[k].tag = rec.tag
InsertPlain(table, rec) == Append(table, rec)
InsertOrIgnore(table, rec) ==
    IF HasPair(table, rec) THEN table ELSE Append(table, rec)

\* executemany over the batch, committed as one transaction
RECURSIVE InsertBatch(_, _)
InsertBatch(table, batch) ==
    IF batch = << >> THEN table
    ELSE InsertBatch(InsertOrIgnore(table, Head(batch)), Tail(batch))

\* read_last_id: -1 when the file is missing or unreadable
read_last_id(f) == IF f.state = "int" THEN f.val ELSE -1

\* write_last_id: the text written, str(int(n))
write_last_id_below(n) == IntFile(n - 1)
write_last_id(n) == IntFile(n)

\* ------------------------------------------------------------------- state
VARIABLES
    binExists,      \* telemetry.bin exists
    stream,         \* its whole records, in file order
    tail,           \* bytes of a trailing record not yet completely written
    written,        \* records the producer has begun to write so far
    offsetFile,     \* last_offset.txt
    offsetTmp,      \* last_offset.txt.tmp
    packets,        \* the packets table
    pc,             \* the reader process: idle, loop, write_tmp, replace, failed, dead
    cursor,         \* parse_iteration_once: cursor
    last_stored,    \* parse_iteration_once: last_stored
    metrics,        \* parse_iteration_once: metrics
    chunkAt,        \* offset of the chunk last handed to the codec in this pass
    hist,           \* history of the run, read by the properties only
    aiPc,           \* the anomaly engine: idle, query, insert, write_id, replace, feed, dead
    lastIdFile,     \* ai_last_id.txt
    lastIdTmp,      \* ai_last_id.txt.tmp
    rolls,          \* roll_v, roll_i, roll_p, roll_t (process lifetime)
    last_id,        \* run_once: last_id
    max_seen,       \* run_once: max_seen
    anomalies_collected,    \* run_once: anomalies_collected
    ai_anomalies,   \* the ai_anomalies table, in rowid order
    feed,           \* ai_output.jsonl, one entry per line
    aiPasses,       \* passes the anomaly engine has started
    aiHist          \* history of the engine's passes, read by the properties only

readerVars == <<pc, cursor, last_stored, metrics, chunkAt>>
aiVars == <<aiPc, lastIdFile, lastIdTmp, rolls, last_id, max_seen,
            anomalies_collected, ai_anomalies, feed, aiPasses, aiHist>>
vars == <<binExists, stream, tail, written, offsetFile, offsetTmp, packets,
          pc, cursor, last_stored, metrics, chunkAt, hist,
          aiPc, lastIdFile, lastIdTmp, rolls, last_id, max_seen,
          anomalies_collected, ai_anomalies, feed, aiPasses, aiHist>>

\* read_last_offset: 0 when the file is missing, empty or unreadable
read_last_offset(f) == IF f.state = "int" THEN f.val ELSE 0

ZeroMetrics ==
    [ processed |-> 0, crc_failures |-> 0, framing_errors |-> 0,
      missing_packets |-> 0, duplicates |-> 0, anomalies |-> 0 ]

\* os.path.getsize(TELEMETRY_BIN)
FileSize == Len(stream) * PACKET_SIZE + tail

\* f.seek(off); f.read(PACKET_SIZE)
ReadChunk(off) ==
    IF off >= 0 /\ off % PACKET_SIZE = 0 /\ off \div PACKET_SIZE < Len(stream)
    THEN stream[off \div PACKET_SIZE + 1]
    ELSE GarbageRecord

\* write_last_offset: the text written, str(int(offset))
write_last_offset_index(offset) == IntFile(offset \div PACKET_SIZE)
write_last_offset(offset) == IntFile(offset)

\* truncation check at the start of a pass
StartOffsetNoReset(last_offset, file_size) == last_offset
StartOffset(last_offset, file_size) ==
    IF last_offset > file_size THEN 0 ELSE last_offset

\* the loop's guard: a full packet is available at the cursor
HasAnyBytes(cur, file_size) == cur < file_size
HasWholeRecord(cur, file_size) == cur + PACKET_SIZE <= file_size

\* cursor += PACKET_SIZE
AdvanceCursorTwice(cur) == cur + 2 * PACKET_SIZE
AdvanceCursorPayloadOnly(cur) == cur + PAYLOAD_SIZE
AdvanceCursor(cur) == cur + PACKET_SIZE

\* framing check, then CRC check
ClassifyCrcFirst(rec) ==
    IF ~crc_ok(rec) THEN "crc"
    ELSE IF ~framing_ok(rec) THEN "framing"
    ELSE "accept"
ClassifyFramingOnly(rec) ==
    IF ~framing_ok(rec) THEN "framing" ELSE "accept"
Classify(rec) ==
    IF ~framing_ok(rec) THEN "framing"
    ELSE IF ~crc_ok(rec) THEN "crc"
    ELSE "accept"

NoHist ==
    [ track |-> "none",         \* what the history follows: none, resume, partial, reference, evaluated
      reset |-> FALSE,          \* the current pass started above the stream length
      failedAt |-> {},          \* offsets whose insert failed in the latest pass
      partialStop |-> NULL,     \* boundary at which a pass last stopped before a partial record
      phase |-> "none",         \* crash/resume scenario: none, first, crashed, second, resumed
      db0 |-> << >>,            \* packets table when the interrupted pass started
      off0 |-> 0,               \* cursor the interrupted pass started at
      end0 |-> 0,               \* cursor the interrupted pass had reached
      ins0 |-> 0,               \* records the interrupted pass had inserted
      end1 |-> 0,               \* cursor the resuming pass persisted
      wire |-> << >>,           \* packets as the producer packed them: fields and bytes
      persisted |-> NULL ]      \* the packet most recently persisted, as a reference packet

NoScenario(h) ==
    [ h EXCEPT !.phase = "none", !.db0 = << >>, !.off0 = 0, !.end0 = 0,
               !.ins0 = 0, !.end1 = 0 ]

\* The state before the producer and the reader have done anything, with the
\* history `h`.
\* History of the anomaly engine: the packet ids the current pass evaluated,
\* the records it found, the outcome of its batch insert, and the ranges
\* whose evaluation has been persisted (committed, or nothing to insert),
\* whether the feed append of the pass failed, and (when the history follows
\* "evaluated") the packet ids some pass has evaluated.
NoAiHist ==
    [ range |-> {}, found |-> << >>, batch |-> "none", done |-> {}, feedLost |-> FALSE,
      seen |-> {} ]
NewPass(h) ==
    [ h EXCEPT !.range = {}, !.found = << >>, !.batch = "none", !.feedLost = FALSE ]

InitWith(h) ==
    /\ binExists = FALSE
    /\ stream = << >>
    /\ tail = 0
    /\ written = 0
    /\ offsetFile = MissingFile
    /\ offsetTmp = MissingFile
    /\ packets = << >>
    /\ pc = "idle"
    /\ cursor = 0
    /\ last_stored = NULL
    /\ metrics = ZeroMetrics
    /\ chunkAt = NULL
    /\ hist = h
    /\ aiPc = "idle"
    /\ lastIdFile = MissingFile
    /\ lastIdTmp = MissingFile
    /\ rolls = EmptyRolls
    /\ last_id = -1
    /\ max_seen = -1
    /\ anomalies_collected = << >>
    /\ ai_anomalies = << >>
    /\ feed = << >>
    /\ aiPasses = 0
    /\ aiHist = NoAiHist

Init == InitWith(NoHist)

\* The same initial state, with the history following a crash and the pass
\* that resumes after it,
InitResume == InitWith([ NoHist EXCEPT !.track = "resume" ])

\* and with the history following the stops before a partial record.
InitPartial == InitWith([ NoHist EXCEPT !.track = "partial" ])

\* and with the history following the packet most recently persisted.
InitReference == InitWith([ NoHist EXCEPT !.track = "reference" ])

\* and with the history following the packets the engine has evaluated.
InitEvaluated == InitWith([ NoHist EXCEPT !.track = "evaluated" ])

\* ---------------------------------------------------------------- producer
\* gen.py: f.write(packet); f.flush() seen as one whole record
ProducerAppend ==
    /\ tail = 0
    /\ written < MaxRecords
    /\ \E rec \in RecordInputs : stream' = Append(stream, rec)
    /\ written' = written + 1
    /\ binExists' = TRUE
    /\ UNCHANGED <<aiVars, tail, offsetFile, offsetTmp, packets, readerVars, hist>>

\* the same write seen while only part of its bytes are in the file
ProducerAppendPartial ==
    /\ tail = 0
    /\ written < MaxRecords
    /\ \E n \in PartialSizes : tail' = n
    /\ written' = written + 1
    /\ binExists' = TRUE
    /\ UNCHANGED <<aiVars, stream, offsetFile, offsetTmp, packets, readerVars, hist>>

\* the remaining bytes of the trailing record arrive
ProducerComplete ==
    /\ tail > 0
    /\ \E rec \in RecordInputs : stream' = Append(stream, rec)
    /\ tail' = 0
    /\ UNCHANGED <<aiVars, binExists, written, offsetFile, offsetTmp, packets, readerVars, hist>>

\* telemetry.bin is truncated or rotated: it restarts empty
StreamTruncate ==
    /\ binExists
    /\ FileSize > 0
    /\ stream' = << >>
    /\ tail' = 0
    /\ hist' = [ NoScenario(hist) EXCEPT !.partialStop = NULL ]
    /\ UNCHANGED <<aiVars, binExists, written, offsetFile, offsetTmp, packets, readerVars>>

\* ------------------------------------------------------------------ reader
\* The process's memory once a pass has returned or the process has ended.
ForgetPass ==
    /\ cursor' = 0
    /\ last_stored' = NULL
    /\ metrics' = ZeroMetrics
    /\ chunkAt' = NULL

\* History kept when a pass ends without having persisted its cursor.
Interrupted(h) ==
    IF h.phase = "first" /\ h.ins0 >= 1
    THEN [ h EXCEPT !.phase = "crashed", !.end0 = cursor, !.reset = FALSE, !.failedAt = {} ]
    ELSE [ NoScenario(h) EXCEPT !.reset = FALSE, !.failedAt = {} ]

\* parse_iteration_once with telemetry.bin missing: returns at once
ReaderStartNoFile ==
    /\ pc = "idle"
    /\ ~binExists
    /\ UNCHANGED vars

\* parse_iteration_once up to the loop: read the offset, reset it when it
\* lies above the file size, open the store, read the reference packet
ReaderStart ==
    /\ pc = "idle"
    /\ binExists
    /\ StartOffset(read_last_offset(offsetFile), FileSize) >= 0
    /\ LET last_offset == read_last_offset(offsetFile)
           start == StartOffset(last_offset, FileSize)
       IN  /\ cursor' = start
           /\ hist' =
                IF hist.phase = "crashed"
                THEN [ hist EXCEPT !.phase = "second",
                                   !.reset = last_offset > FileSize, !.failedAt = {} ]
                ELSE IF hist.track = "resume"
                THEN [ NoScenario(hist) EXCEPT !.phase = "first", !.db0 = packets,
                                   !.off0 = start,
                                   !.reset = last_offset > FileSize, !.failedAt = {} ]
                ELSE [ hist EXCEPT !.reset = last_offset > FileSize, !.failedAt = {} ]
    /\ last_stored' = get_last_stored_info(packets)
    /\ metrics' = ZeroMetrics
    /\ chunkAt' = NULL
    /\ pc' = "loop"
    /\ UNCHANGED <<aiVars, binExists, stream, tail, written, offsetFile, offsetTmp, packets>>

\* parse_iteration_once with a negative stored offset: f.seek(cursor) raises
\* OSError, nothing in parse_iteration_once or main catches it, the process
\* ends
ReaderSeekFailure ==
    /\ pc = "idle"
    /\ binExists
    /\ StartOffset(read_last_offset(offsetFile), FileSize) < 0
    /\ pc' = "failed"
    /\ UNCHANGED <<aiVars, binExists, stream, tail, written, offsetFile, offsetTmp, packets,
                   cursor, last_stored, metrics, chunkAt, hist>>

\* the loop finds no full packet at the cursor: break
ReaderStop ==
    /\ pc = "loop"
    /\ ~HasWholeRecord(cursor, FileSize)
    /\ pc' = "write_tmp"
    /\ hist' = IF hist.track = "partial" /\ FileSize > cursor
               THEN [ hist EXCEPT !.partialStop = Some(cursor) ]
               ELSE hist
    /\ UNCHANGED <<aiVars, binExists, stream, tail, written, offsetFile, offsetTmp, packets,
                   cursor, last_stored, metrics, chunkAt>>

\* framing check fails: count, skip the packet
ReaderFramingError ==
    /\ pc = "loop"
    /\ HasWholeRecord(cursor, FileSize)
    /\ Classify(ReadChunk(cursor)) = "framing"
    /\ metrics' = [ metrics EXCEPT !.framing_errors = @ + 1 ]
    /\ cursor' = AdvanceCursor(cursor)
    /\ chunkAt' = Some(cursor)
    /\ UNCHANGED <<aiVars, binExists, stream, tail, written, offsetFile, offsetTmp, packets,
                   pc, last_stored, hist>>

\* CRC check fails: count, do not store, advance
ReaderCrcFailure ==
    /\ pc = "loop"
    /\ HasWholeRecord(cursor, FileSize)
    /\ Classify(ReadChunk(cursor)) = "crc"
    /\ metrics' = [ metrics EXCEPT !.crc_failures = @ + 1 ]
    /\ cursor' = AdvanceCursor(cursor)
    /\ chunkAt' = Some(cursor)
    /\ UNCHANGED <<aiVars, binExists, stream, tail, written, offsetFile, offsetTmp, packets,
                   pc, last_stored, hist>>

\* the timestamp conversion of an accepted packet raises: nothing in
\* parse_iteration_once or main catches it, the process ends
ReaderTsFailure ==
    /\ pc = "loop"
    /\ HasWholeRecord(cursor, FileSize)
    /\ Classify(ReadChunk(cursor)) = "accept"
    /\ TsConversionRaises(ReadChunk(cursor).payload.ts_ms)
    /\ pc' = "failed"
    /\ ForgetPass
    /\ hist' = Interrupted(hist)
    /\ UNCHANGED <<aiVars, binExists, stream, tail, written, offsetFile, offsetTmp, packets>>

\* History of the packet most recently persisted.
Persisted(h, rec, inserted) ==
    IF h.track = "reference" /\ inserted
    THEN [ h EXCEPT !.persisted = AsLastStored(rec) ]
    ELSE h

\* an accepted packet: validate, build the row, insert it (when the insert
\* fails it is logged and the loop goes on), make it the reference, advance
ReaderAcceptWith(inserted) ==
    /\ pc = "loop"
    /\ HasWholeRecord(cursor, FileSize)
    /\ Classify(ReadChunk(cursor)) = "accept"
    /\ ~TsConversionRaises(ReadChunk(cursor).payload.ts_ms)
    /\ LET rec == ReadChunk(cursor)
           row == BuildRow(rec, last_stored)
       IN  /\ packets' = IF inserted THEN insert_packet(packets, row) ELSE packets
           /\ hist' =
                Persisted(
                    IF ~inserted
                    THEN [ NoScenario(hist) EXCEPT !.failedAt = @ \cup {cursor} ]
                    ELSE IF hist.phase = "first"
                    THEN [ hist EXCEPT !.ins0 = @ + 1 ]
                    ELSE hist,
                    rec, inserted)
           /\ last_stored' = AsLastStored(rec)
           /\ metrics' = [ metrics EXCEPT
                             !.processed = @ + 1,
                             !.missing_packets = @ + IdGap(rec.payload, last_stored),
                             !.anomalies = @ + row.anomaly_flag ]
    /\ cursor' = AdvanceCursor(cursor)
    /\ chunkAt' = Some(cursor)
    /\ UNCHANGED <<aiVars, binExists, stream, tail, written, offsetFile, offsetTmp, pc>>

ReaderAccept == ReaderAcceptWith(TRUE)

\* insert_packet raises: caught in the loop
ReaderAcceptInsertFails == ReaderAcceptWith(FALSE)

ReaderWriteInPlace ==
    /\ pc = "write_tmp"
    /\ offsetFile' = write_last_offset(cursor)
    /\ pc' = "replace"
    /\ UNCHANGED <<aiVars, binExists, stream, tail, written, offsetTmp, packets,
                   cursor, last_stored, metrics, chunkAt, hist>>

\* write_last_offset, first half: write the temporary file
ReaderWriteTmp ==
    /\ pc = "write_tmp"
    /\ offsetTmp' = write_last_offset(cursor)
    /\ pc' = "replace"
    /\ UNCHANGED <<aiVars, binExists, stream, tail, written, offsetFile, packets,
                   cursor, last_stored, metrics, chunkAt, hist>>

\* write_last_offset, second half: os.replace; the pass then returns
ReaderReplace ==
    /\ pc = "replace"
    /\ offsetFile' = offsetTmp
    /\ offsetTmp' = MissingFile
    /\ pc' = "idle"
    /\ ForgetPass
    /\ hist' = IF hist.phase = "second"
               THEN [ hist EXCEPT !.phase = "resumed", !.end1 = cursor, !.reset = FALSE ]
               ELSE [ NoScenario(hist) EXCEPT !.reset = FALSE ]
    /\ UNCHANGED <<aiVars, binExists, stream, tail, written, packets>>

\* the process is terminated during a pass
ReaderCrash ==
    /\ pc \in {"loop", "write_tmp", "replace"}
    /\ pc' = "dead"
    /\ ForgetPass
    /\ hist' = Interrupted(hist)
    /\ UNCHANGED <<aiVars, binExists, stream, tail, written, offsetFile, offsetTmp, packets>>

\* the process is terminated while write_last_offset writes the temporary
\* file: the file is left empty or partly written
ReaderCrashMidWrite ==
    /\ pc = "write_tmp"
    /\ pc' = "dead"
    /\ offsetTmp' = GarbageFile
    /\ ForgetPass
    /\ hist' = Interrupted(hist)
    /\ UNCHANGED <<aiVars, binExists, stream, tail, written, offsetFile, packets>>

\* the process is started again
ReaderRestart ==
    /\ pc \in {"dead", "failed"}
    /\ pc' = "idle"
    /\ UNCHANGED <<aiVars, binExists, stream, tail, written, offsetFile, offsetTmp, packets,
                   cursor, last_stored, metrics, chunkAt, hist>>

ReaderNext ==
    \/ ReaderStartNoFile
    \/ ReaderStart
    \/ ReaderStop
    \/ ReaderFramingError
    \/ ReaderCrcFailure
    \/ ReaderTsFailure
    \/ ReaderAccept
    \/ ReaderWriteTmp
    \/ ReaderReplace
    \/ ReaderCrash
    \/ ReaderCrashMidWrite
    \/ ReaderRestart

ProducerNext ==
    \/ ProducerAppend
    \/ ProducerAppendPartial
    \/ ProducerComplete

\* The reader over an append-only stream and a store that takes every insert.
Next == ReaderNext \/ ProducerNext

Spec == Init /\ [][Next]_vars

\* The same with the faults the reader is written to survive: a truncated
\* stream and a failing insert.
FaultNext ==
    \/ ReaderNext
    \/ ProducerNext
    \/ StreamTruncate
    \/ ReaderAcceptInsertFails

FaultSpec == Init /\ [][FaultNext]_vars

\* Spec with the history of a crash and of the pass that resumes after it.
ResumeSpec == InitResume /\ [][Next]_vars

\* Spec with the history of the stops before a partial trailing record.
PartialSpec == InitPartial /\ [][Next]_vars

\* FaultSpec with the history of the packet most recently persisted.
ReferenceSpec == InitReference /\ [][FaultNext]_vars

\* ------------------------------------------------- anomaly engine actions
\* Records the reader has accepted and stored, as the engine meets them.
StoredInputs ==
    { r \in GoodRecords \cup FlaggedRecords : ~TsConversionRaises(r.payload.ts_ms) }

\* The reader stores one accepted record: its row is built against the
\* newest row of the store and committed on its own.
ReaderStoresPacket ==
    /\ written < MaxRecords
    /\ \E rec \in StoredInputs :
          packets' = insert_packet(packets, BuildRow(rec, get_last_stored_info(packets)))
    /\ written' = written + 1
    /\ UNCHANGED <<aiVars, readerVars, binExists, stream, tail, offsetFile, offsetTmp, hist>>

AiUnchangedReader ==
    UNCHANGED <<readerVars, binExists, stream, tail, written, offsetFile,
                offsetTmp, packets, hist>>

RollsEmpty ==
    Len(rolls.v) = 0 /\ Len(rolls.i) = 0 /\ Len(rolls.p) = 0 /\ Len(rolls.t) = 0

\* run_once: read the checkpoint, start with nothing collected
AiStart ==
    /\ aiPc = "idle"
    /\ aiPasses < MaxAiPasses
    /\ aiPasses' = aiPasses + 1
    /\ last_id' = read_last_id(lastIdFile)
    /\ max_seen' = read_last_id(lastIdFile)
    /\ anomalies_collected' = << >>
    /\ aiPc' = "warmup"
    /\ UNCHANGED <<lastIdFile, lastIdTmp, rolls, ai_anomalies, feed>>
    /\ aiHist' = NewPass(aiHist)
    /\ AiUnchangedReader

\* run_once: open the store; warm the windows up when all four are empty
AiWarmup ==
    /\ aiPc = "warmup"
    /\ rolls' = IF RollsEmpty THEN warmup_rolls(rolls, packets) ELSE rolls
    /\ aiPc' = "query"
    /\ UNCHANGED <<lastIdFile, lastIdTmp, last_id, max_seen, anomalies_collected,
                   ai_anomalies, feed, aiPasses>>
    /\ UNCHANGED aiHist
    /\ AiUnchangedReader

\* run_once: an exception while the store is opened or queried, or when the
\* batch transaction is begun, is logged and the pass goes on to the
\* checkpoint with what it has
AiStoreFailure ==
    /\ aiPc \in {"warmup", "query", "insert"}
    /\ aiPc' = "write_id"
    /\ UNCHANGED <<lastIdFile, lastIdTmp, rolls, last_id, max_seen,
                   anomalies_collected, ai_anomalies, feed, aiPasses>>
    /\ UNCHANGED aiHist
    /\ AiUnchangedReader

\* run_once: select the packets above last_id and evaluate them in order
AiEvaluate ==
    /\ aiPc = "query"
    /\ LET ids == Ascending({ id \in DOMAIN packets : id > last_id })
           st == EvaluateRows([ rolls |-> rolls, max_seen |-> max_seen,
                                collected |-> anomalies_collected ], packets, ids)
       IN  /\ rolls' = st.rolls
           /\ max_seen' = st.max_seen
           /\ anomalies_collected' = st.collected
           /\ aiPc' = IF st.collected = << >> THEN "write_id" ELSE "insert"
           /\ aiHist' = [ aiHist EXCEPT
                             !.range = { id \in DOMAIN packets : id > last_id },
                             !.found = st.collected,
                             !.done = IF st.collected = << >>
                                      THEN @ \cup {{ id \in DOMAIN packets : id > last_id }}
                                      ELSE @,
                             !.seen = IF hist.track = "evaluated"
                                      THEN @ \cup { id \in DOMAIN packets : id > last_id }
                                      ELSE @ ]
    /\ UNCHANGED <<lastIdFile, lastIdTmp, last_id, ai_anomalies, feed, aiPasses>>
    /\ AiUnchangedReader

\* run_once: the batch is inserted and committed
AiBatchInsert ==
    /\ aiPc = "insert"
    /\ ai_anomalies' = InsertBatch(ai_anomalies, anomalies_collected)
    /\ aiPc' = "write_id"
    /\ UNCHANGED <<lastIdFile, lastIdTmp, rolls, last_id, max_seen,
                   anomalies_collected, feed, aiPasses>>
    /\ aiHist' = [ aiHist EXCEPT !.batch = "ok", !.done = @ \cup {aiHist.range} ]
    /\ AiUnchangedReader

AiBatchInsertFailsDropsBatch ==
    /\ aiPc = "insert"
    /\ aiPc' = "write_id"
    /\ anomalies_collected' = << >>
    /\ UNCHANGED <<lastIdFile, lastIdTmp, rolls, last_id, max_seen,
                   ai_anomalies, feed, aiPasses>>
    /\ aiHist' = [ aiHist EXCEPT !.batch = "failed" ]
    /\ AiUnchangedReader

\* run_once: the batch fails and is rolled back
AiBatchInsertFails ==
    /\ aiPc = "insert"
    /\ aiPc' = "write_id"
    /\ UNCHANGED <<lastIdFile, lastIdTmp, rolls, last_id, max_seen,
                   anomalies_collected, ai_anomalies, feed, aiPasses>>
    /\ aiHist' = [ aiHist EXCEPT !.batch = "failed" ]
    /\ AiUnchangedReader

\* run_once: last_id unchanged, nothing is written
AiSkipWrite ==
    /\ aiPc = "write_id"
    /\ ~(max_seen > last_id)
    /\ aiPc' = "feed"
    /\ UNCHANGED <<lastIdFile, lastIdTmp, rolls, last_id, max_seen,
                   anomalies_collected, ai_anomalies, feed, aiPasses>>
    /\ UNCHANGED aiHist
    /\ AiUnchangedReader

AiWriteTmpAlways ==
    /\ aiPc = "write_id"
    /\ lastIdTmp' = write_last_id(max_seen)
    /\ aiPc' = "replace"
    /\ UNCHANGED <<lastIdFile, rolls, last_id, max_seen, anomalies_collected,
                   ai_anomalies, feed, aiPasses>>
    /\ UNCHANGED aiHist
    /\ AiUnchangedReader

\* write_last_id: the temporary file is written
AiWriteTmp ==
    /\ aiPc = "write_id"
    /\ max_seen > last_id
    /\ lastIdTmp' = write_last_id(max_seen)
    /\ aiPc' = "replace"
    /\ UNCHANGED <<lastIdFile, rolls, last_id, max_seen, anomalies_collected,
                   ai_anomalies, feed, aiPasses>>
    /\ UNCHANGED aiHist
    /\ AiUnchangedReader

\* write_last_id: os.replace
AiReplace ==
    /\ aiPc = "replace"
    /\ lastIdFile' = lastIdTmp
    /\ lastIdTmp' = MissingFile
    /\ aiPc' = "feed"
    /\ UNCHANGED <<rolls, last_id, max_seen, anomalies_collected, ai_anomalies,
                   feed, aiPasses>>
    /\ UNCHANGED aiHist
    /\ AiUnchangedReader

\* write_last_id: an exception is logged and the pass goes on
AiWriteFails ==
    /\ \/ aiPc = "write_id" /\ max_seen > last_id
       \/ aiPc = "replace"
    /\ aiPc' = "feed"
    /\ UNCHANGED <<lastIdFile, lastIdTmp, rolls, last_id, max_seen,
                   anomalies_collected, ai_anomalies, feed, aiPasses>>
    /\ UNCHANGED aiHist
    /\ AiUnchangedReader

\* run_once: the collected entries are appended to the feed
AiAppendFeed ==
    /\ aiPc = "feed"
    /\ feed' = feed \o anomalies_collected
    /\ aiPc' = "idle"
    /\ UNCHANGED <<lastIdFile, lastIdTmp, rolls, last_id, max_seen,
                   anomalies_collected, ai_anomalies, aiPasses>>
    /\ UNCHANGED aiHist
    /\ AiUnchangedReader

\* run_once: the append fails and is logged
AiFeedFails ==
    /\ aiPc = "feed"
    /\ anomalies_collected # << >>
    /\ aiPc' = "idle"
    /\ UNCHANGED <<lastIdFile, lastIdTmp, rolls, last_id, max_seen,
                   anomalies_collected, ai_anomalies, feed, aiPasses>>
    /\ aiHist' = [ aiHist EXCEPT !.feedLost = TRUE ]
    /\ AiUnchangedReader

\* The process is killed: the windows and the locals of the pass are gone,
\* the files and the store stay as they are.
AiCrash ==
    /\ aiPc # "dead"
    /\ aiPc' = "dead"
    /\ rolls' = EmptyRolls
    /\ last_id' = -1
    /\ max_seen' = -1
    /\ anomalies_collected' = << >>
    /\ UNCHANGED <<lastIdFile, lastIdTmp, ai_anomalies, feed, aiPasses>>
    /\ aiHist' = NewPass(aiHist)
    /\ AiUnchangedReader

\* The process is killed while write_last_id writes the temporary file.
AiCrashMidWrite ==
    /\ aiPc = "write_id"
    /\ max_seen > last_id
    /\ aiPc' = "dead"
    /\ lastIdTmp' = GarbageFile
    /\ rolls' = EmptyRolls
    /\ last_id' = -1
    /\ max_seen' = -1
    /\ anomalies_collected' = << >>
    /\ UNCHANGED <<lastIdFile, ai_anomalies, feed, aiPasses>>
    /\ aiHist' = NewPass(aiHist)
    /\ AiUnchangedReader

AiRestart ==
    /\ aiPc = "dead"
    /\ aiPc' = "idle"
    /\ UNCHANGED <<lastIdFile, lastIdTmp, rolls, last_id, max_seen,
                   anomalies_collected, ai_anomalies, feed, aiPasses>>
    /\ UNCHANGED aiHist
    /\ AiUnchangedReader

\* The anomaly engine beside a reader that stores accepted records, with
\* the failures run_once catches and with kills of the process.
AiNext ==
    \/ ReaderStoresPacket
    \/ AiStart
    \/ AiWarmup
    \/ AiStoreFailure
    \/ AiEvaluate
    \/ AiBatchInsert
    \/ AiBatchInsertFails
    \/ AiSkipWrite
    \/ AiWriteTmp
    \/ AiReplace
    \/ AiWriteFails
    \/ AiAppendFeed
    \/ AiFeedFails
    \/ AiCrash
    \/ AiCrashMidWrite
    \/ AiRestart

AiSpec == Init /\ [][AiNext]_vars

\* A store the reader has filled from one stream: packet 0 one degree
\* warmer than the k packets after it, all other channels constant.
WarmRecord == EncodePacket(Payload(MAGIC_ID, 0, DEC2025_FIRST_DAY, 7400, 100, 80, 2600, 300, 400000, 0))

RECURSIVE StoredRun(_)
StoredRun(k) ==
    IF k = 0
    THEN insert_packet(<< >>, BuildRow(WarmRecord, NULL))
    ELSE LET db == StoredRun(k - 1)
         IN  insert_packet(db, BuildRow(EncodePacket(Nominal(k, DEC2025_FIRST_DAY + k)),
                                        get_last_stored_info(db)))

\* The anomaly engine alone over such a store.
InitStored ==
    /\ binExists = FALSE
    /\ stream = << >>
    /\ tail = 0
    /\ written = 0
    /\ offsetFile = MissingFile
    /\ offsetTmp = MissingFile
    /\ packets \in { StoredRun(k) : k \in 0 .. MaxQuiet }
    /\ pc = "idle"
    /\ cursor = 0
    /\ last_stored = NULL
    /\ metrics = ZeroMetrics
    /\ chunkAt = NULL
    /\ hist = NoHist
    /\ aiPc = "idle"
    /\ lastIdFile = MissingFile
    /\ lastIdTmp = MissingFile
    /\ rolls = EmptyRolls
    /\ last_id = -1
    /\ max_seen = -1
    /\ anomalies_collected = << >>
    /\ ai_anomalies = << >>
    /\ feed = << >>
    /\ aiPasses = 0
    /\ aiHist = NoAiHist

AiJobNext ==
    \/ AiStart
    \/ AiWarmup
    \/ AiStoreFailure
    \/ AiEvaluate
    \/ AiBatchInsert
    \/ AiBatchInsertFails
    \/ AiSkipWrite
    \/ AiWriteTmp
    \/ AiReplace
    \/ AiWriteFails
    \/ AiAppendFeed
    \/ AiFeedFails
    \/ AiCrash
    \/ AiCrashMidWrite
    \/ AiRestart

ReevalSpec == InitStored /\ [][AiJobNext]_vars

\* Either job run on its own from the common initial state: the reader with
\* its producer while the engine has not moved, or the engine with the
\* stored packets while the reader and the producer have not moved.
AiUntouched == aiPc = "idle" /\ aiPasses = 0 /\ (binExists \/ written = 0)
ReaderUntouched == ~binExists /\ pc = "idle"

EitherJobNext ==
    \/ (AiUntouched /\ Next)
    \/ (ReaderUntouched /\ AiNext)

EitherJobSpec == Init /\ [][EitherJobNext]_vars

\* The reader's checkpoint file is damaged between two passes: its text is
\* replaced by text that is no integer, or by a negative integer.
DamagedFiles == { GarbageFile, IntFile(-5) }

CheckpointCorrupted ==
    /\ pc = "idle"
    /\ \E f \in DamagedFiles : offsetFile' = f
    /\ offsetFile' # offsetFile
    /\ UNCHANGED <<aiVars, binExists, stream, tail, written, offsetTmp, packets,
                   readerVars, hist>>

CorruptNext ==
    \/ ReaderNext
    \/ ProducerNext
    \/ CheckpointCorrupted
    \/ ReaderSeekFailure

CorruptSpec == Init /\ [][CorruptNext]_vars

\* The reader left to itself: no kill and no restart from outside; the
\* process, while it lives, takes its next step.
ReaderPass ==
    \/ ReaderStart
    \/ ReaderStop
    \/ ReaderFramingError
    \/ ReaderCrcFailure
    \/ ReaderTsFailure
    \/ ReaderAccept
    \/ ReaderWriteTmp
    \/ ReaderReplace

LiveNext ==
    \/ ProducerNext
    \/ ReaderStartNoFile
    \/ ReaderPass

LiveSpec == Init /\ [][LiveNext]_vars /\ WF_vars(ReaderPass)

\* The reader kept alive: whenever its process has ended it is started
\* again, and while it lives it takes its next step.
ReaderKeptAlive ==
    \/ ReaderPass
    \/ ReaderRestart

ProgressNext ==
    \/ ProducerNext
    \/ ReaderStartNoFile
    \/ ReaderKeptAlive

ProgressSpec == Init /\ [][ProgressNext]_vars /\ WF_vars(ReaderKeptAlive)

\* main_loop: a further pass, beyond those the model counts
AiStartUncounted ==
    /\ aiPc = "idle"
    /\ aiPasses = MaxAiPasses
    /\ last_id' = read_last_id(lastIdFile)
    /\ max_seen' = read_last_id(lastIdFile)
    /\ anomalies_collected' = << >>
    /\ aiPc' = "warmup"
    /\ UNCHANGED <<lastIdFile, lastIdTmp, rolls, ai_anomalies, feed, aiPasses>>
    /\ aiHist' = NewPass(aiHist)
    /\ AiUnchangedReader

\* The engine left to itself, pass after pass, with no failure and no kill:
\* main_loop starts the next pass after each sleep.
AiPass ==
    \/ AiStart
    \/ AiStartUncounted
    \/ AiWarmup
    \/ AiEvaluate
    \/ AiBatchInsert
    \/ AiSkipWrite
    \/ AiWriteTmp
    \/ AiReplace
    \/ AiAppendFeed

\* The reader storing accepted packets while the engine runs its passes.
EvalLiveNext ==
    \/ ReaderStoresPacket
    \/ AiPass

\* main_loop: `while True` runs run_once and sleeps, so the engine's position
\* keeps moving; every step of AiPass changes aiPc and no other step does.
AiPositions ==
    {"idle", "warmup", "query", "insert", "write_id", "replace", "feed"}

AiAdvances ==
    /\ aiPc' \in AiPositions
    /\ aiPc' # aiPc

EvalLiveSpec == InitEvaluated /\ [][EvalLiveNext]_vars /\ WF_aiPc(AiAdvances)

\* ------------------------------------------- rule evaluation, row by row
\* New rows one pass of the engine finds above its mark.
MaxNewRows == 2

\* A packet of the stream with the given id and channel values.
ChannelRecord(pid, mv, ib, temp) ==
    EncodePacket(Payload(MAGIC_ID, pid, DEC2025_FIRST_DAY + pid, mv, ib, 80, temp, 300, 400000, 0))

\* The packets table after the reader has stored the records of a stream
\* with ids 0, 1, ... in order: each row is built against the record
\* before it.
StoreRecords(recs) ==
    [ id \in 0 .. Len(recs) - 1 |->
        BuildRow(recs[id + 1], IF id = 0 THEN NULL ELSE AsLastStored(recs[id])) ]

\* Packets 0 .. n-1 of a steady stream: every channel moves `spread` units
\* below and above its level in turn (spread 0: constant channels).
SteadyRecord(pid, temp, spread) ==
    LET d == IF pid % 2 = 0 THEN -spread ELSE spread
    IN  ChannelRecord(pid, 7400 + d, 100 + d, temp + d)
SteadyStream(n, temp, spread) == [ k \in 1 .. n |-> SteadyRecord(k - 1, temp, spread) ]

\* Lengths of the steady stream: none, fewer packets than the statistics
\* need, around the ten packets below which no value lies three deviations
\* from the mean of a window that holds it, and around the window capacity.
WindowFills == {0, 1, 2, 9, 10, 11, 29, 30}
ShortFills == {0, 1, 2}

\* The packets that follow it, as channel values <<battery_mv, I_batt_mA,
\* temp_centiC>>, by the temperature level of the steady stream.
NewSamples(temp) ==
    { <<7400, 100, temp>>, <<7400, 100, temp + 3>>, <<7400, 100, temp + 4>>,
      <<7400, 100, temp + 20>>, <<7400, 120, temp>>, <<7380, 100, temp>> }
ThresholdSamples ==
    { <<7400, 100, TEMP_HIGH>>, <<7400, 100, TEMP_HIGH + 1>>,
      <<7400, 100, TEMP_LOW>>, <<7400, 100, TEMP_LOW - 1>> }

\* Steady streams at a nominal temperature, just below TEMP_HIGH and just
\* above TEMP_LOW, each followed by MaxNewRows packets; the sums of squares
\* of the wide temperature steps fit the integers only for short streams.
RuleScenarios ==
         { [ fill |-> n, temp |-> 2500, spread |-> sp, new |-> smp ] :
             n \in WindowFills, sp \in {0, 1},
             smp \in [ 1 .. MaxNewRows -> NewSamples(2500) ] }
    \cup { [ fill |-> n, temp |-> 2500, spread |-> sp, new |-> smp ] :
             n \in ShortFills, sp \in {0, 1},
             smp \in [ 1 .. MaxNewRows -> ThresholdSamples ] }
    \cup { [ fill |-> n, temp |-> TEMP_HIGH - 10, spread |-> sp, new |-> smp ] :
             n \in WindowFills, sp \in {0, 1},
             smp \in [ 1 .. MaxNewRows -> { <<7400, 100, TEMP_HIGH>>, <<7400, 100, TEMP_HIGH + 1>> } ] }
    \cup { [ fill |-> n, temp |-> TEMP_LOW + 10, spread |-> sp, new |-> smp ] :
             n \in WindowFills, sp \in {0, 1},
             smp \in [ 1 .. MaxNewRows -> { <<7400, 100, TEMP_LOW>>, <<7400, 100, TEMP_LOW - 1>> } ] }

ScenarioStore(sc) ==
    StoreRecords(
        SteadyStream(sc.fill, sc.temp, sc.spread)
        \o [ k \in 1 .. MaxNewRows |->
               ChannelRecord(sc.fill + k - 1, sc.new[k][1], sc.new[k][2], sc.new[k][3]) ])

\* The windows after rows 0 .. n-1 of the store were pushed one by one into
\* empty windows, for n up to the capacity: their channel values in order.
EvaluatedRolls(db, n) ==
    [ v |-> [ k \in 1 .. n |-> Channels(db[k - 1]).v ],
      i |-> [ k \in 1 .. n |-> Channels(db[k - 1]).i ],
      p |-> [ k \in 1 .. n |-> Channels(db[k - 1]).p ],
      t |-> [ k \in 1 .. n |-> Channels(db[k - 1]).t ] ]

\* The engine in one process lifetime after it has evaluated the steady
\* stream packet by packet and persisted its mark: a new pass has read the
\* mark and is about to walk the rows above it.
InitRules ==
    \E sc \in RuleScenarios :
        /\ binExists = FALSE
        /\ stream = << >>
        /\ tail = 0
        /\ written = 0
        /\ offsetFile = MissingFile
        /\ offsetTmp = MissingFile
        /\ packets = ScenarioStore(sc)
        /\ pc = "idle"
        /\ cursor = 0
        /\ last_stored = NULL
        /\ metrics = ZeroMetrics
        /\ chunkAt = NULL
        /\ hist = NoHist
        /\ aiPc = "query"
        /\ lastIdFile = IF sc.fill = 0 THEN MissingFile ELSE IntFile(sc.fill - 1)
        /\ lastIdTmp = MissingFile
        /\ rolls = EvaluatedRolls(ScenarioStore(sc), sc.fill)
        /\ last_id = sc.fill - 1
        /\ max_seen = sc.fill - 1
        /\ anomalies_collected = << >>
        /\ ai_anomalies = << >>
        /\ feed = << >>
        /\ aiPasses = 1
        /\ aiHist = NoAiHist

\* run_once: one turn of the loop over the selected rows, in ascending id
\* order: raise max_seen, call check_rules_for_row, collect its tags
AiEvaluateRow ==
    /\ aiPc = "query"
    /\ \E id \in DOMAIN packets :
          /\ id > max_seen
          /\ \A other \in DOMAIN packets : other > max_seen => id <= other
          /\ rolls' = PushRow(rolls, packets[id])
          /\ max_seen' = id
          /\ anomalies_collected' =
                anomalies_collected
                \o AnomalyRecords(packets[id], check_rules_for_row(rolls, packets[id]))
    /\ UNCHANGED <<aiPc, lastIdFile, lastIdTmp, last_id, ai_anomalies, feed, aiPasses, aiHist>>
    /\ AiUnchangedReader

RuleSpec == InitRules /\ [][AiEvaluateRow]_vars

\* ------------------------------------------------------- codec, byte level
\* Field values the producer may pack: every field at the ends of its wire
\* type (as far as the integers of the model reach: 2^31 - 1 for the 32 and
\* 64 bit fields) and at values whose bytes differ from each other.
CodecPayloads ==
      { Payload(MAGIC_ID, pid, ts, 7400, 100, 80, 2500, 300, 400000, 0) :
          pid \in {0, 16909060, 2147483647},
          ts \in {0, 2147483647} }
 \cup { Payload(MAGIC_ID, 1, DEC2025_FIRST_DAY, mv, ib, soc, 2500, 300, 400000, 0) :
          mv \in {0, 65535},
          ib \in {-32768, -1, 32767},
          soc \in {0, 255} }
 \cup { Payload(MAGIC_ID, 1, DEC2025_FIRST_DAY, 7400, 100, 80, temp, solar, alt, ef) :
          temp \in {-32768, 32767},
          solar \in {-1, 32767},
          alt \in {0, 2147483647},
          ef \in {258, 65535} }

\* gen.py packs a packet and appends its bytes to the file; the stream then
\* holds the record as parse_iteration_once unpacks it from those bytes.
ProducerPacks ==
    /\ tail = 0
    /\ written < MaxRecords
    /\ \E p \in CodecPayloads :
          /\ stream' = Append(stream, DecodeChunk(EncodeBytes(p)))
          /\ hist' = [ hist EXCEPT !.wire = Append(@, [ fields |-> p, bytes |-> EncodeBytes(p) ]) ]
    /\ written' = written + 1
    /\ binExists' = TRUE
    /\ UNCHANGED <<aiVars, tail, offsetFile, offsetTmp, packets, readerVars>>

CodecSpec == Init /\ [][ProducerPacks]_vars

\* ================================================================== claims
\* A step of the reader's loop (not a crash, not a step of the producer).
LoopStep == pc = "loop" /\ pc' # "dead" /\ (cursor' # cursor \/ pc' # "loop")

\* The columns of a packet row that validation derives.
DerivedColumns(row) ==
    <<row.validation_flags, row.anomaly_flag, row.anomaly_reasons,
      row.delta_batt_v, row.delta_temp_c, row.time_delta_ms>>

\* The packets table a single pass produces that runs from cursor `cur` to
\* `end` without being interrupted, starting with table `db` and reference
\* packet `last`.
RECURSIVE UninterruptedPass(_, _, _, _)
UninterruptedPass(db, last, cur, end) ==
    IF cur >= end THEN db
    ELSE LET rec == ReadChunk(cur)
         IN  IF (IF ~framing_ok(rec) THEN "framing"
                 ELSE IF ~crc_ok(rec) THEN "crc" ELSE "accept") # "accept"
             THEN UninterruptedPass(db, last, cur + PACKET_SIZE, end)
             ELSE UninterruptedPass(insert_packet(db, BuildRow(rec, last)),
                                    AsLastStored(rec), cur + PACKET_SIZE, end)

\* The offsets of the records the interrupted pass had consumed.
InterruptedOffsets ==
    { o \in hist.off0 .. (hist.end0 - 1) : (o - hist.off0) % PACKET_SIZE = 0 }

\* C1 (as claimed): when a pass is terminated after inserting k >= 1 records
\* and before persisting the cursor, then once the next pass has completed
\* the rows of those records carry the flags, anomaly boolean, reasons and
\* deltas that one uninterrupted pass over the same bytes produces.
C1_ResumeEquivalence ==
    hist.phase = "resumed" =>
        LET ref == UninterruptedPass(hist.db0, get_last_stored_info(hist.db0),
                                     hist.off0, hist.end1)
        IN  \A o \in InterruptedOffsets :
                (framing_ok(ReadChunk(o)) /\ crc_ok(ReadChunk(o))) =>
                    LET id == ReadChunk(o).payload.packet_id
                    IN  /\ id \in DOMAIN packets
                        /\ id \in DOMAIN ref
                        /\ DerivedColumns(packets[id]) = DerivedColumns(ref[id])

\* C2: over an append-only stream and a store that takes every insert, in
\* every state (also after the process was terminated) every whole record
\* below the persisted cursor with correct magic and checksum has a row in
\* the packets table under its packet id.
C2_CursorBehindCommitted ==
    \A i \in 1 .. Len(stream) :
        (i * PACKET_SIZE <= read_last_offset(offsetFile)
            /\ framing_ok(stream[i]) /\ crc_ok(stream[i]))
        => stream[i].payload.packet_id \in DOMAIN packets

C2_Witness ==
    /\ pc = "dead"
    /\ Len(stream) = 2
    /\ read_last_offset(offsetFile) = 2 * PACKET_SIZE
    /\ framing_ok(stream[1]) /\ crc_ok(stream[1])
    /\ framing_ok(stream[2]) /\ crc_ok(stream[2])
    /\ stream[1].payload.packet_id # stream[2].payload.packet_id

\* C3 (as claimed): when the insert of an accepted packet fails, the cursor
\* the pass persists is not past the first byte of that record.
C3_CursorNotPastFailedInsert ==
    (pc = "idle" /\ hist.failedAt # {}) =>
        \A o \in hist.failedAt : read_last_offset(offsetFile) <= o

\* C4 (as claimed): no step lowers the persisted reader cursor.
C4_CursorMonotonic ==
    [][read_last_offset(offsetFile') >= read_last_offset(offsetFile)]_vars

\* C4 (amended): a step lowers the persisted reader cursor only in a pass
\* that started with the stored cursor above the stream length; every other
\* pass, also one that finds no complete new record, persists a value not
\* below the one persisted before it.
C4_CursorMonotonicUnlessReset ==
    [][read_last_offset(offsetFile') < read_last_offset(offsetFile) => hist.reset]_vars

C4_Witness ==
    /\ pc = "replace"
    /\ ~hist.reset
    /\ offsetFile.state = "int"
    /\ offsetFile.val > 0
    /\ offsetTmp = offsetFile

\* C5: starting from no checkpoint, over an append-only stream, the
\* persisted cursor is a multiple of PACKET_SIZE not above the stream
\* length, and every chunk handed to the codec is the PACKET_SIZE bytes at a
\* multiple of PACKET_SIZE that lie wholly inside the stream.
C5_WholeRecordFraming ==
    /\ read_last_offset(offsetFile) % PACKET_SIZE = 0
    /\ read_last_offset(offsetFile) <= FileSize
    /\ pc = "loop" => cursor % PACKET_SIZE = 0
    /\ chunkAt # NULL =>
          /\ chunkAt[1] % PACKET_SIZE = 0
          /\ chunkAt[1] + PACKET_SIZE <= FileSize

C5_Witness ==
    /\ chunkAt = Some(PACKET_SIZE)
    /\ read_last_offset(offsetFile) = PACKET_SIZE
    /\ Len(stream) = 2

\* C6: when fewer than PACKET_SIZE bytes remain after the cursor the pass
\* stops: it consumes none of them, changes no counter and no row, and
\* leaves the cursor at the last whole-record boundary; a chunk is handed to
\* the codec only at the cursor, only when a whole record of the stream lies
\* there, and at most once per pass for any offset, so the record completed
\* later is decoded once, from that same boundary.
C6_IncompleteTrailingRecord ==
    [][ /\ (LoopStep /\ FileSize - cursor < PACKET_SIZE) =>
              /\ pc' = "write_tmp"
              /\ cursor' = cursor
              /\ cursor = (FileSize \div PACKET_SIZE) * PACKET_SIZE
              /\ metrics' = metrics
              /\ packets' = packets
              /\ chunkAt' = chunkAt
        /\ (chunkAt' # chunkAt /\ chunkAt' # NULL) =>
              /\ chunkAt' = Some(cursor)
              /\ chunkAt # NULL => chunkAt[1] < cursor
              /\ cursor % PACKET_SIZE = 0
              /\ cursor \div PACKET_SIZE < Len(stream)
              /\ cursor' = cursor + PACKET_SIZE
      ]_vars

\* A later pass has decoded the record at the boundary where a pass had
\* stopped before its partial bytes.
C6_Witness ==
    /\ hist.partialStop # NULL
    /\ chunkAt = hist.partialStop
    /\ metrics.processed = 1

\* C7 (as claimed): a record with correct magic and checksum is upserted
\* under its packet id with its validation flags, whatever its field values,
\* and the pass goes on with the next record.
C7_ValidRecordAlwaysPersisted ==
    [][ (LoopStep /\ HasWholeRecord(cursor, FileSize)
            /\ framing_ok(ReadChunk(cursor)) /\ crc_ok(ReadChunk(cursor))) =>
          LET p == ReadChunk(cursor).payload
          IN  /\ p.packet_id \in DOMAIN packets'
              /\ packets'[p.packet_id].validation_flags = ValidationFlags(p, last_stored)
              /\ pc' = "loop"
              /\ cursor' = cursor + PACKET_SIZE
      ]_vars

\* C8: for a record whose first four bytes differ from the magic constant,
\* the framing-error counter goes up by exactly 1, the integrity-error and
\* processed counters stay, no row is written, and the cursor advances by
\* exactly PACKET_SIZE with the pass going on.
C8_FramingFailure ==
    [][ (LoopStep /\ cursor + PACKET_SIZE <= FileSize
            /\ ~framing_ok(ReadChunk(cursor))) =>
          /\ metrics'.framing_errors = metrics.framing_errors + 1
          /\ metrics'.crc_failures = metrics.crc_failures
          /\ metrics'.processed = metrics.processed
          /\ packets' = packets
          /\ cursor' = cursor + PACKET_SIZE
          /\ pc' = "loop"
      ]_vars

\* A record with a wrong magic whose checksum mismatches too has been
\* counted as a framing error only.
C8_Witness ==
    /\ pc = "loop"
    /\ chunkAt # NULL
    /\ ~framing_ok(ReadChunk(chunkAt[1]))
    /\ ~crc_ok(ReadChunk(chunkAt[1]))
    /\ metrics.framing_errors = 1
    /\ metrics.crc_failures = 0

\* C9: for a record with correct magic whose stored checksum differs from
\* the computed one, the integrity-error counter goes up by exactly 1, the
\* processed and framing counters stay, no row is written or replaced, and
\* the cursor advances by exactly PACKET_SIZE with the pass going on.
C9_IntegrityFailure ==
    [][ (LoopStep /\ cursor + PACKET_SIZE <= FileSize
            /\ framing_ok(ReadChunk(cursor)) /\ ~crc_ok(ReadChunk(cursor))) =>
          /\ metrics'.crc_failures = metrics.crc_failures + 1
          /\ metrics'.processed = metrics.processed
          /\ metrics'.framing_errors = metrics.framing_errors
          /\ packets' = packets
          /\ cursor' = cursor + PACKET_SIZE
          /\ pc' = "loop"
      ]_vars

\* A record with a bad checksum was dropped while the table holds a row
\* under the same packet id, left as it was.
C9_Witness ==
    /\ pc = "loop"
    /\ chunkAt # NULL
    /\ framing_ok(ReadChunk(chunkAt[1]))
    /\ ~crc_ok(ReadChunk(chunkAt[1]))
    /\ metrics.crc_failures = 1
    /\ metrics.processed = 1
    /\ ReadChunk(chunkAt[1]).payload.packet_id \in DOMAIN packets

\* C10: the anomaly table holds at most one row per (packet_id, tag) pair,
\* however many times the engine has evaluated a packet.
C10_OneRowPerPacketTag ==
    \A j, k \in 1 .. Len(ai_anomalies) :
        (ai_anomalies[j].packet_id = ai_anomalies[k].packet_id
            /\ ai_anomalies[j].tag = ai_anomalies[k].tag) => j = k

\* A packet evaluated a second time: the batch of the pass holds a pair the
\* table already has, and the batch has been inserted.
C10_Witness ==
    /\ aiPc = "write_id"
    /\ aiPasses = 2
    /\ anomalies_collected # << >>
    /\ Len(feed) >= 1
    /\ \E k \in 1 .. Len(feed) :
          /\ feed[k].packet_id = anomalies_collected[1].packet_id
          /\ feed[k].tag = anomalies_collected[1].tag
    /\ Len(ai_anomalies) = 1
    /\ HasPair(ai_anomalies, anomalies_collected[1])

\* C11: when the engine evaluates a range of stored packets whose
\* evaluation was already persisted once, the second evaluation adds no row
\* to the anomaly table.
C11_ReevaluationAddsNoRows ==
    [][ (aiPc = "insert" /\ aiHist.range # {} /\ aiHist.range \in aiHist.done)
            => ai_anomalies' = ai_anomalies ]_vars

\* A pass whose batch insert failed: the records it found, and nothing else.
BatchFailed == aiHist.batch = "failed"

\* C12: when the batch insert of a pass fails, the step leaves the anomaly
\* table as it was (nothing of the batch is stored), the pass still goes on
\* to persist the mark, and the mark it persists is the greatest packet id
\* it examined, never a lower value.
C12_MarkAdvancesDespiteInsertFailure ==
    [][ /\ (aiPc = "insert" /\ aiHist'.batch = "failed")
              => (ai_anomalies' = ai_anomalies /\ aiPc' = "write_id")
        /\ (BatchFailed /\ aiPc = "write_id")
              => (max_seen = MaxOf(aiHist.range) /\ max_seen > last_id)
        /\ (BatchFailed /\ aiPc = "write_id" /\ aiPc' = "replace")
              => lastIdTmp' = IntFile(MaxOf(aiHist.range))
        /\ (BatchFailed /\ lastIdFile' # lastIdFile)
              => lastIdFile' = IntFile(MaxOf(aiHist.range))
      ]_vars

\* The batch of a pass failed, the table holds nothing, and the mark stands
\* at the greatest id the pass examined.
C12_Witness ==
    /\ BatchFailed
    /\ aiPc = "feed"
    /\ aiHist.found # << >>
    /\ ai_anomalies = << >>
    /\ lastIdFile = IntFile(MaxOf(aiHist.range))
    /\ read_last_id(lastIdFile) > last_id

\* C13: whatever became of the batch insert, the records a pass found are
\* all still to be appended when it reaches the feed, a pass ends only
\* through the feed step, an append that does not fail appends every one of
\* them, and a failed append changes neither the persisted mark nor the
\* anomaly table.
C13_FeedIndependentOfTable ==
    [][ /\ aiPc' = "feed" => anomalies_collected' = aiHist'.found
        /\ (aiPc \notin {"idle", "dead"} /\ aiPc' = "idle") => aiPc = "feed"
        /\ (aiPc = "feed" /\ aiPc' = "idle" /\ ~aiHist'.feedLost)
              => feed' = feed \o aiHist.found
        /\ (aiPc = "feed" /\ aiPc' = "idle" /\ aiHist'.feedLost)
              => (feed' = feed /\ lastIdFile' = lastIdFile /\ ai_anomalies' = ai_anomalies)
      ]_vars

\* A finished pass whose batch insert failed: the feed holds its records,
\* the table does not.
C13_Witness ==
    /\ aiPc = "idle"
    /\ BatchFailed
    /\ ~aiHist.feedLost
    /\ aiHist.found # << >>
    /\ feed = aiHist.found
    /\ ai_anomalies = << >>

\* C18: the persisted mark of the engine changes only at the replace step
\* of a pass whose greatest examined packet id exceeds the value the pass
\* loaded, the new value is exactly that greatest id and is greater than
\* the value before; a pass that examined nothing new writes nothing.
C18_MarkWrittenOnlyWhenIncreased ==
    [][ /\ lastIdFile' # lastIdFile =>
              /\ aiPc = "replace"
              /\ aiHist.range # {}
              /\ last_id = read_last_id(lastIdFile)
              /\ MaxOf(aiHist.range) > last_id
              /\ lastIdFile' = IntFile(MaxOf(aiHist.range))
              /\ read_last_id(lastIdFile') > read_last_id(lastIdFile)
        /\ lastIdTmp' \notin {lastIdTmp, MissingFile} =>
              /\ aiHist.range # {}
              /\ MaxOf(aiHist.range) > last_id
              /\ aiPc' # "dead" => lastIdTmp' = IntFile(MaxOf(aiHist.range))
      ]_vars

\* A second pass found no packet above the stored mark and left it alone.
C18_Witness ==
    /\ aiPasses = 2
    /\ aiPc = "feed"
    /\ aiHist.range = {}
    /\ lastIdFile.state = "int"
    /\ last_id = lastIdFile.val
    /\ lastIdTmp = MissingFile
    /\ DOMAIN packets # {}

\* C16: a pass that starts with the stored cursor above the stream length
\* starts reading at byte 0, and otherwise at the stored cursor; starting
\* never fails the pass; and a pass that started from the reset reads one
\* whole record after the other from byte 0 on and stops only when no whole
\* record is left at its cursor.
C16_TruncationReset ==
    [][ /\ (pc = "idle" /\ pc' # "idle") =>
              /\ pc' = "loop"
              /\ cursor' = IF read_last_offset(offsetFile) > FileSize
                            THEN 0 ELSE read_last_offset(offsetFile)
        /\ (hist.reset /\ pc = "loop" /\ pc' = "loop" /\ cursor' # cursor) =>
              (cursor' = cursor + PACKET_SIZE /\ chunkAt' = Some(cursor))
        /\ (hist.reset /\ pc = "loop" /\ pc' = "write_tmp") =>
              (cursor % PACKET_SIZE = 0 /\ FileSize - cursor < PACKET_SIZE)
      ]_vars

\* A pass that found the stream shorter than the stored cursor has read a
\* record from byte 0 and reached its end.
C16_Witness ==
    /\ hist.reset
    /\ pc = "write_tmp"
    /\ read_last_offset(offsetFile) > FileSize
    /\ cursor = PACKET_SIZE
    /\ chunkAt = Some(0)

\* C19: for an accepted packet with a previous packet, whatever the previous
\* id (0 included), the stored row has the id-gap flag exactly when
\* current_id > previous_id + 1, and the missing-packet count of the pass
\* grows by current_id - previous_id - 1 in that case and by 0 otherwise.
C19_IdGapDetection ==
    [][ (LoopStep /\ metrics'.processed = metrics.processed + 1 /\ last_stored # NULL) =>
          LET cur == ReadChunk(cursor).payload.packet_id
              prev == last_stored[1].packet_id
          IN  /\ cur \in DOMAIN packets'
              /\ HasBit(packets'[cur].validation_flags, BIT_ID_GAP) <=> (cur > prev + 1)
              /\ metrics'.missing_packets = metrics.missing_packets
                    + (IF cur > prev + 1 THEN cur - prev - 1 ELSE 0)
      ]_vars

\* C20: for every stored packet the aggregate anomaly flag is 1 exactly when
\* the timestamp-bad flag is set, or the sanity flag is set, or the device
\* error flags are not 0; an id gap alone leaves it 0.
C20_AggregateAnomalyFlag ==
    \A id \in DOMAIN packets :
        (packets[id].anomaly_flag = 1) <=>
            \/ HasBit(packets[id].validation_flags, BIT_TS_BAD)
            \/ HasBit(packets[id].validation_flags, BIT_SANITY)
            \/ packets[id].error_flags # 0

\* A stored packet whose only finding is the id gap (id 2 after id 0), not
\* marked anomalous.
C20_Witness ==
    /\ DOMAIN packets = {0, 2}
    /\ packets[2].validation_flags = BIT_ID_GAP
    /\ packets[2].error_flags = 0
    /\ packets[2].anomaly_flag = 0

\* C14: the checkpoint file a load reads changes only in the replace step of
\* a store, from the value before to the value being stored, and never holds
\* a partial or empty text; a process that ends during a store leaves the
\* file with the value before.  For the reader's cursor and the engine's mark.
C14_AtomicCheckpointWrite ==
    [][ /\ offsetFile' # offsetFile =>
              (pc = "replace" /\ offsetFile' = IntFile(cursor))
        /\ lastIdFile' # lastIdFile =>
              (aiPc = "replace" /\ lastIdFile' = IntFile(max_seen))
        /\ offsetFile'.state # "garbage"
        /\ lastIdFile'.state # "garbage"
        /\ (pc \in {"write_tmp", "replace"} /\ pc' = "dead") =>
              read_last_offset(offsetFile') = read_last_offset(offsetFile)
        /\ (aiPc \in {"write_id", "replace"} /\ aiPc' = "dead") =>
              read_last_id(lastIdFile') = read_last_id(lastIdFile)
      ]_vars

\* The reader was killed while it wrote a new cursor: the temporary file
\* is partly written, the checkpoint still holds the cursor stored before.
C14_Witness ==
    /\ pc = "dead"
    /\ offsetTmp = GarbageFile
    /\ offsetFile = IntFile(PACKET_SIZE)
    /\ Len(stream) = 2

\* C15: a pass that starts with a checkpoint file that holds no stored
\* non-negative integer (missing, empty, not numeric, negative) loads the
\* start default 0 and goes into its loop at byte 0 without failing.
C15_LoadDegradesSafely ==
    [][ (pc = "idle" /\ pc' # "idle"
            /\ ~(offsetFile.state = "int" /\ offsetFile.val >= 0)) =>
          /\ read_last_offset(offsetFile) = 0
          /\ pc' = "loop"
          /\ cursor' = 0
      ]_vars

\* C17: no failure inside a pass ends the reader: every pass that has
\* started gets back to the scheduling loop, from where the next one starts.
C17_EveryPassReturns == (pc = "loop") ~> (pc = "idle")


\* A record of the pass's collection for packet `id` with tag `tag`.
Tagged(collected, id, tag) ==
    \E k \in 1 .. Len(collected) :
        collected[k].packet_id = id /\ collected[k].tag = tag

\* std > 0 and x = mean + SIGMA * std, x above the mean or below it
AtSigmaBound(buf, x, above) ==
    /\ HasStats(buf)
    /\ ScaledVar(buf, x) > 0
    /\ IF above THEN SumDev(buf, x) < 0 ELSE SumDev(buf, x) > 0
    /\ SumDev(buf, x) * SumDev(buf, x) = SIGMA * SIGMA * ScaledVar(buf, x)

\* C21: given a channel history whose window has mean mu and population
\* standard deviation sigma > 0, the evaluation of a new sample strictly
\* above mu + 3*sigma produces the channel's spike tag (below mu - 3*sigma
\* for VOLTAGE_DROP), and a new sample equal to mu + 3*sigma produces none.
\* The windows before the step are the history, the row is the new sample.
C21_StrictZScoreThreshold ==
    [][ (aiPc = "query" /\ max_seen' # max_seen) =>
          LET id == max_seen'
              c == Channels(packets[id])
              got == anomalies_collected'
          IN  /\ DropBelow(rolls.v, c.v) => Tagged(got, id, "VOLTAGE_DROP")
              /\ SpikeAbove(rolls.i, c.i) => Tagged(got, id, "CURRENT_SPIKE")
              /\ SpikeAbove(rolls.p, c.p) => Tagged(got, id, "POWER_SPIKE")
              /\ SpikeAbove(rolls.t, c.t) => Tagged(got, id, "TEMP_RISE")
              /\ AtSigmaBound(rolls.v, c.v, FALSE) => ~Tagged(got, id, "VOLTAGE_DROP")
              /\ AtSigmaBound(rolls.i, c.i, TRUE) => ~Tagged(got, id, "CURRENT_SPIKE")
              /\ AtSigmaBound(rolls.p, c.p, TRUE) => ~Tagged(got, id, "POWER_SPIKE")
              /\ AtSigmaBound(rolls.t, c.t, TRUE) => ~Tagged(got, id, "TEMP_RISE")
      ]_vars

\* The records of the collection for packet `id` with tag `tag`.
RecordsOf(collected, id, tag) ==
    { k \in 1 .. Len(collected) :
        collected[k].packet_id = id /\ collected[k].tag = tag }

\* C22: for every evaluated packet with temperature t and whatever the
\* rolling windows hold, a TEMP_HIGH anomaly is produced if and only if
\* t > 5000 and a TEMP_LOW anomaly if and only if t < -2000, each once and
\* with severity critical, and never both for the same packet.
C22_FixedTemperatureThresholds ==
    [][ (aiPc = "query" /\ max_seen' # max_seen) =>
          LET id == max_seen'
              t == packets[id].temp_centi
              high == RecordsOf(anomalies_collected', id, "TEMP_HIGH")
              low == RecordsOf(anomalies_collected', id, "TEMP_LOW")
          IN  /\ (high # {}) <=> (t > 5000)
              /\ (low # {}) <=> (t < -2000)
              /\ Cardinality(high) <= 1 /\ Cardinality(low) <= 1
              /\ \A k \in high \cup low : anomalies_collected'[k].severity = "critical"
              /\ ~(high # {} /\ low # {})
      ]_vars

\* A packet just above the high bound tagged TEMP_HIGH while the temperature
\* window is full and the statistical rule fires for it too.
C22_Witness ==
    /\ Len(rolls.t) = ROLLING_WINDOW
    /\ Tagged(anomalies_collected, max_seen, "TEMP_HIGH")
    /\ Tagged(anomalies_collected, max_seen, "TEMP_RISE")
    /\ packets[max_seen].temp_centi = TEMP_HIGH + 1

\* The channel values of the last min(k, capacity) of the packets 0 .. k-1,
\* in arrival order.
LastPushed(db, k, capacity) ==
    LET m == IF k < capacity THEN k ELSE capacity
    IN  [ v |-> [ j \in 1 .. m |-> Channels(db[k - m + j - 1]).v ],
          i |-> [ j \in 1 .. m |-> Channels(db[k - m + j - 1]).i ],
          p |-> [ j \in 1 .. m |-> Channels(db[k - m + j - 1]).p ],
          t |-> [ j \in 1 .. m |-> Channels(db[k - m + j - 1]).t ] ]

\* C23: after k samples were pushed into a window of capacity N, packet by
\* packet, the window holds exactly the last min(k, N) of them in arrival
\* order; the push of sample N+1 evicts the oldest one and no other.
C23_BoundedFifo ==
    aiPc = "query" => rolls = LastPushed(packets, max_seen + 1, ROLLING_WINDOW)

\* Sample N+1 has been pushed: the window is full, starts with the second
\* sample and ends with the newest, and the first sample differed from the
\* second.
C23_Witness ==
    /\ max_seen + 1 = ROLLING_WINDOW + 1
    /\ Len(rolls.t) = ROLLING_WINDOW
    /\ rolls.t[1] = packets[1].temp_centi
    /\ rolls.t[ROLLING_WINDOW] = packets[ROLLING_WINDOW].temp_centi
    /\ packets[0].temp_centi # packets[1].temp_centi

\* C24: for every combination of in-range field values the record the
\* producer packs (magic constant, fields little-endian at fixed offsets,
\* checksum over all bytes before it) has PACKET_SIZE bytes, passes the
\* reader's framing and integrity checks, unpacks to the packed value in
\* every field, and packing the unpacked fields again gives the same bytes.
C24_CodecRoundTrip ==
    /\ Len(hist.wire) = Len(stream)
    /\ \A k \in 1 .. Len(hist.wire) :
          LET chunk == hist.wire[k].bytes
          IN  /\ Len(chunk) = PACKET_SIZE
              /\ SubSeq(chunk, 1, 4) = MAGIC_ID
              /\ \A j \in 1 .. Len(chunk) : chunk[j] \in 0 .. 255
              /\ ChunkFramingOk(chunk)
              /\ ChunkCrcOk(chunk)
              /\ stream[k].payload = hist.wire[k].fields
              /\ EncodeBytes(stream[k].payload) = chunk

\* Two packets went through the codec: one with the least temperature and
\* battery current of the wire type, one with the greatest packet id.
C24_Witness ==
    /\ Len(stream) = 2
    /\ stream[1].payload.temp_centiC = -32768
    /\ hist.wire[1].bytes[22] = 0 /\ hist.wire[1].bytes[23] = 128
    /\ stream[2].payload.packet_id = 2147483647
    /\ hist.wire[2].bytes[8] = 127

\* C25: the previous packet an accepted packet is validated against (the
\* timestamp order, the id gap, the deltas) is the packet most recently
\* persisted before it, none with null deltas when nothing was persisted,
\* at the start of a pass and within it; a dropped packet or one whose
\* insert failed is never the reference.  Read off the row that is stored.
C25_ReferenceIsLastPersisted ==
    [][ (LoopStep /\ metrics'.processed = metrics.processed + 1 /\ packets' # packets) =>
          LET rec == ReadChunk(cursor)
          IN  packets'[rec.payload.packet_id] = BuildRow(rec, hist.persisted)
      ]_vars

\* C26: within a pass the mark is written to its file only after the
\* records of the pass were submitted to the anomaly table and appended to
\* the feed, so that a kill at any point leaves no persisted mark covering
\* a packet whose anomalies of the pass are not yet in the feed: at the
\* step that persists the mark every collected record is in the feed.
C26_MarkPersistedLast ==
    [][ lastIdFile' # lastIdFile =>
          /\ anomalies_collected # << >> => aiHist.batch \in {"ok", "failed"}
          /\ \A k \in 1 .. Len(anomalies_collected) :
                \E j \in 1 .. Len(feed') : feed'[j] = anomalies_collected[k]
      ]_vars

\* The window after one more sample, however it is kept.
WithSample(buf, x) == LastN(Append(buf, x), ROLLING_WINDOW)

\* C27: for each evaluated packet every channel value is pushed into its
\* window first, and the mean and population standard deviation the
\* statistical rules compare against are those of the window with the
\* packet's own sample in it: a value beyond three of those deviations is
\* tagged, a value within them is not.  No statistical tag is produced for
\* a channel whose window then holds fewer than 2 samples or has standard
\* deviation 0.
C27_PostPushStatistics ==
    [][ (aiPc = "query" /\ max_seen' # max_seen) =>
          LET id == max_seen'
              c == Channels(packets[id])
              got == anomalies_collected'
              v == WithSample(rolls.v, c.v)
              i == WithSample(rolls.i, c.i)
              p == WithSample(rolls.p, c.p)
              t == WithSample(rolls.t, c.t)
          IN  /\ rolls' = [ v |-> v, i |-> i, p |-> p, t |-> t ]
              /\ DropBelow(v, c.v) => Tagged(got, id, "VOLTAGE_DROP")
              /\ SpikeAbove(i, c.i) => Tagged(got, id, "CURRENT_SPIKE")
              /\ SpikeAbove(p, c.p) => Tagged(got, id, "POWER_SPIKE")
              /\ SpikeAbove(t, c.t) => Tagged(got, id, "TEMP_RISE")
              /\ Tagged(got, id, "VOLTAGE_DROP") => (DropBelow(v, c.v) \/ AtSigmaBound(v, c.v, FALSE))
              /\ Tagged(got, id, "CURRENT_SPIKE") => (SpikeAbove(i, c.i) \/ AtSigmaBound(i, c.i, TRUE))
              /\ Tagged(got, id, "POWER_SPIKE") => (SpikeAbove(p, c.p) \/ AtSigmaBound(p, c.p, TRUE))
              /\ Tagged(got, id, "TEMP_RISE") => (SpikeAbove(t, c.t) \/ AtSigmaBound(t, c.t, TRUE))
              /\ (Len(v) < 2 \/ ScaledVar(v, c.v) = 0) => ~Tagged(got, id, "VOLTAGE_DROP")
              /\ (Len(i) < 2 \/ ScaledVar(i, c.i) = 0) => ~Tagged(got, id, "CURRENT_SPIKE")
              /\ (Len(p) < 2 \/ ScaledVar(p, c.p) = 0) => ~Tagged(got, id, "POWER_SPIKE")
              /\ (Len(t) < 2 \/ ScaledVar(t, c.t) = 0) => ~Tagged(got, id, "TEMP_RISE")
      ]_vars

\* A packet whose temperature lies 20 sigma above a history of ten samples
\* is tagged: with it the window holds eleven samples; the packet after it,
\* 3 sigma above that history, is not.
C27_Witness ==
    /\ Len(rolls.t) = 12
    /\ Tagged(anomalies_collected, max_seen - 1, "TEMP_RISE")
    /\ rolls.t[11] = 2520
    /\ rolls.t[12] = 2503
    /\ ~Tagged(anomalies_collected, max_seen, "TEMP_RISE")

\* C28: during one process lifetime, the cold-start pass included, the
\* channel values of a persisted packet are pushed into the windows at most
\* once: the windows always hold the last (up to ROLLING_WINDOW) channel
\* values of distinct packets of the store in ascending id order.
C28_NoSampleTwice ==
    \E S \in SUBSET DOMAIN packets :
        rolls = PushRows(EmptyRolls, packets, LastN(Ascending(S), ROLLING_WINDOW))

\* C29: with the reader and the engine interleaving over the shared store
\* and the engine's passes scheduled fairly, every packet the reader
\* persists, whatever its id relative to the ids persisted before, is
\* eventually examined by a pass's rule evaluation.
C29_EveryPacketEvaluated ==
    \A id \in 0 .. 3 : (id \in DOMAIN packets) ~> (id \in aiHist.seen)

\* Sizes telemetry.bin can have.
StreamLengths ==
    { n * PACKET_SIZE + t : n \in 0 .. MaxRecords, t \in {0} \cup PartialSizes }

\* The largest multiple of PACKET_SIZE not above `size`.
WholeRecords(size) == (size \div PACKET_SIZE) * PACKET_SIZE

\* C30: once the append-only stream has stopped growing at length L, fair
\* reader passes eventually persist the cursor WholeRecords(L), whatever the
\* records hold.
C30_ReaderProgress ==
    \A L \in StreamLengths :
        <>[](binExists /\ FileSize = L) => <>(offsetFile = IntFile(WholeRecords(L)))

====
